---- MODULE Spec2Model ----
(***************************************************************************)
(* Ingestion-and-storage pipeline of the YFinance stock API:               *)
(*   services/stock_service.py    fetch_historical_ohlcv (fetch, retry,    *)
(*                                normalisation)                           *)
(*   services/storage_service.py  upsert_ohlcv_from_df, query_ohlcv        *)
(*   jobs/fetch_jobs.py           job_fetch_and_store (ingestion cycle)    *)
(* The relational store (table ohlcv of models.py and the staging tables   *)
(* that upsert_ohlcv_from_df creates) is part of the state.                *)
(***************************************************************************)
EXTENDS Integers, Sequences, FiniteSets, TLC

VARIABLES
    ohlcv,            \* rows of the permanent table ohlcv (models.py)
    tables,           \* staging tables present in the store: name -> table
    now,              \* wall clock, in ticks (TicksPerSecond ticks a second)
    pc,               \* position of every thread
    df,               \* the DataFrame a thread holds
    records,          \* upsert_ohlcv_from_df: records (df rows + bookkeeping)
    temp_table_name,  \* upsert_ohlcv_from_df: temp_table_name
    ret,              \* upsert_ohlcv_from_df: returned count
    before,           \* ghost: ohlcv when the thread's upsert call started
    staged,           \* ghost: TRUE once the call's to_sql created its table
    faulted,          \* ghost: TRUE once the store failed a step of the call
    callno,           \* ghost: ordinal of the thread's upsert call
    peers,            \* ghost: ordinals of the calls that ran during this one
    calls,            \* ghost: number of upsert calls started
    log,              \* ghost: one entry per upsert call that returned
    YF_RETRIES,       \* config.py: the maximum-retry-attempts setting
    symbol,           \* fetch_historical_ohlcv: symbol
    attempt,          \* fetch_historical_ohlcv: attempt
    raw,              \* fetch_historical_ohlcv: what yf.download returned
    fetched,          \* fetch_historical_ohlcv: [df, raised], the way it ended
    slept,            \* ghost: the time.sleep delays of the call, in seconds
    tries,            \* ghost: yf.download calls made by the call
    why,              \* ghost: the return statement the call left through
    qres,             \* query_ohlcv: [symbol, limit, ok, data] of the last call
    symbols,          \* job_fetch_and_store: symbols
    idx,              \* job_fetch_and_store: position of s in symbols
    job,              \* TRUE while the thread runs job_fetch_and_store
    report            \* ghost: what the cycle logged for every symbol

fetchVars == <<symbol, attempt, raw, fetched, slept, tries, why>>

cycleVars == <<symbols, idx, job, report>>

upsertVars == <<df, records, temp_table_name, ret, before, staged, faulted,
                callno, peers, calls, log>>

vars == <<ohlcv, tables, now, pc, upsertVars, YF_RETRIES, fetchVars, qres,
          cycleVars>>

-----------------------------------------------------------------------------
(* Bounds of the model *)

MaxDt == 2            \* bar timestamps are 1..MaxDt
MaxTicks == 3         \* the wall clock runs from 0 to MaxTicks
TicksPerSecond == 2   \* resolution of datetime.now() below one second
MaxCalls == 2         \* upsert calls started in one behaviour
MaxRetriesSetting == 4  \* the YF_RETRIES setting is 1..MaxRetriesSetting

\* config.py:14  int(os.getenv("YF_RETRIES", "3"))
DefaultRetries == 3

Threads == {"sched", "req"}   \* scheduler thread, request-handling thread
NoTable == -1

-----------------------------------------------------------------------------
(* Data *)

PriceFields == {"open", "high", "low", "close", "volume"}

\* columns of the DataFrame every caller passes to upsert_ohlcv_from_df
DfColumns == {"symbol", "dt"} \cup PriceFields

\* columns the merge statement selects from the staging table
SelectColumns == DfColumns \cup {"source", "created_at", "updated_at"}

\* columns ON DUPLICATE KEY UPDATE assigns
UpdateColumns == PriceFields \cup {"updated_at"}

\* a normalised bar: five distinct values derived from x
Bar(s, t, x) ==
    [symbol |-> s, dt |-> t, open |-> x, high |-> x + 10, low |-> x + 20,
     close |-> x + 30, volume |-> x + 40]

Key(r) == <<r.symbol, r.dt>>
Keys(rows) == {Key(r) : r \in rows}
Prices(r) == [f \in PriceFields |-> r[f]]
RowOf(rows, k) == CHOOSE r \in rows : Key(r) = k

\* PrimaryKeyConstraint('symbol', 'dt')
PrimaryKey(rows) == \A r1, r2 \in rows : Key(r1) = Key(r2) => r1 = r2

\* datetime.now(): the clock at tick resolution
\* strftime('%Y%m%d_%H%M%S'): the clock truncated to whole seconds
Strftime(t) == t \div TicksPerSecond

\* a DATETIME column keeps whole seconds
DbDateTime(t) == t \div TicksPerSecond

\* lines 22-29: records = df.to_dict('records') plus the bookkeeping fields
AddBookkeeping(d, current_time) ==
    [i \in 1..Len(d) |->
        [c \in SelectColumns |->
            IF c \in DfColumns THEN d[i][c]
            ELSE IF c = "source" THEN "yfinance"
            ELSE current_time]]

\* a staging write of the list records, bookkeeping columns included
ToSqlTableRecords(d, who) ==
    [cols |-> SelectColumns, rows |-> records[who], owner |-> who]

\* line 37: df.to_sql(temp_table_name, conn, if_exists='replace', index=False)
\* writes the DataFrame df, with the DataFrame's columns
ToSqlTable(d, who) == [cols |-> DfColumns, rows |-> d, owner |-> who]

\* lines 41-50 for one staged row: insert if the key is absent, otherwise
\* assign UpdateColumns from the incoming row
MergeRow(rows, s) ==
    LET new == [c \in SelectColumns |->
                   IF c \in {"created_at", "updated_at"}
                   THEN DbDateTime(s[c]) ELSE s[c]]
    IN IF Key(new) \in Keys(rows)
       THEN LET old == RowOf(rows, Key(new))
            IN (rows \ {old}) \cup
               {[c \in SelectColumns |->
                    IF c \in UpdateColumns THEN new[c] ELSE old[c]]}
       ELSE rows \cup {new}

RECURSIVE MergeInto(_, _)
MergeInto(rows, stagedRows) ==
    IF stagedRows = <<>> THEN rows
    ELSE MergeInto(MergeRow(rows, Head(stagedRows)), Tail(stagedRows))

\* line 53: the merge statement can run only if the staging table exists and
\* has every column the SELECT names
MergeRuns(name) ==
    /\ name \in DOMAIN tables
    /\ SelectColumns \subseteq tables[name].cols

-----------------------------------------------------------------------------
(* Inputs *)

\* DataFrames handed to upsert_ohlcv_from_df
Batches ==
    { <<>>,
      <<Bar("A", 1, 1)>>,
      <<Bar("A", 1, 2)>>,
      <<Bar("A", 1, 2), Bar("A", 2, 2)>> }

\* a row already in the table when the process starts
Stored(b, t) ==
    [c \in SelectColumns |->
        IF c \in DfColumns THEN b[c]
        ELSE IF c = "source" THEN "yfinance" ELSE t]

\* a table declared without its primary key can hold two rows of one key
InitStoresNoKey ==
    { {}, {Stored(Bar("A", 1, 3), 0)},
      {Stored(Bar("A", 1, 3), 0), Stored(Bar("A", 1, 4), 0)} }

InitStores == { {}, {Stored(Bar("A", 1, 3), 0)} }

-----------------------------------------------------------------------------
(* upsert_ohlcv_from_df, storage_service.py:12-64 *)

\* the call returns r to its caller
Return(p, r) ==
    /\ ret' = [ret EXCEPT ![p] = r]
    /\ pc' = [pc EXCEPT ![p] = "upsert_ret"]

\* the threads inside upsert_ohlcv_from_df
Running == {q \in Threads : pc[q] \in {"connect", "to_sql", "merge", "upsert_ret"}}

\* a guard that never sees an empty batch
IsEmptyNever(d) == FALSE

\* line 17: df.empty
IsEmpty(d) == d = <<>>

\* lines 12-29
UpsertEnter(p, d) ==
    /\ calls' = calls + 1
    /\ df' = [df EXCEPT ![p] = d]
    /\ before' = [before EXCEPT ![p] = ohlcv]
    /\ staged' = [staged EXCEPT ![p] = FALSE]
    /\ faulted' = [faulted EXCEPT ![p] = FALSE]
    /\ callno' = [callno EXCEPT ![p] = calls + 1]
    /\ peers' = [q \in Threads |->
                    IF q = p THEN {callno[r] : r \in Running \ {p}}
                    ELSE IF q \in Running THEN peers[q] \cup {calls + 1}
                    ELSE peers[q]]
    /\ temp_table_name' = [temp_table_name EXCEPT ![p] = NoTable]
    /\ IF IsEmpty(d)
       THEN /\ Return(p, 0)
            /\ records' = [records EXCEPT ![p] = <<>>]
       ELSE /\ records' = [records EXCEPT ![p] = AddBookkeeping(d, now)]
            /\ pc' = [pc EXCEPT ![p] = "connect"]
            /\ UNCHANGED ret

\* a request handler calls upsert_ohlcv_from_df (main.py:127, 172)
UpsertCall(p, d) ==
    /\ pc[p] = "idle"
    /\ calls < MaxCalls
    /\ UpsertEnter(p, d)
    /\ UNCHANGED <<ohlcv, tables, now, log, YF_RETRIES, fetchVars, qres,
                   cycleVars>>

\* an except clause that logs and re-raises
OnStoreErrorRaises(p) ==
    /\ pc' = [pc EXCEPT ![p] = "upsert_raised"]
    /\ UNCHANGED ret

\* lines 62-64: except Exception: the error is logged and 0 is returned
OnStoreError(p) == Return(p, 0)

\* lines 32-34: engine.connect() and the name of the staging table;
\* a failure goes to the except clause of lines 62-64
Connect(p) ==
    /\ pc[p] = "connect"
    /\ \E ok \in BOOLEAN :
          /\ IF ok
             THEN /\ temp_table_name' =
                        [temp_table_name EXCEPT ![p] = Strftime(now)]
                  /\ pc' = [pc EXCEPT ![p] = "to_sql"]
                  /\ UNCHANGED ret
             ELSE /\ OnStoreError(p)
                  /\ UNCHANGED temp_table_name
          /\ faulted' = [faulted EXCEPT ![p] = ~ok]
    /\ UNCHANGED <<ohlcv, tables, now, df, records, before, staged, callno,
                   peers, calls, log, YF_RETRIES, fetchVars, qres, cycleVars>>

\* line 37: the staging write; if_exists='replace' drops a table of that name
ToSql(p) ==
    /\ pc[p] = "to_sql"
    /\ LET name == temp_table_name[p]
           full == ToSqlTable(df[p], p)
       IN \E outcome \in {"ok", "create_fails", "insert_fails"} :
             CASE outcome = "ok" ->
                    /\ tables' = [n \in DOMAIN tables \cup {name} |->
                                     IF n = name THEN full ELSE tables[n]]
                    /\ staged' = [staged EXCEPT ![p] = TRUE]
                    /\ pc' = [pc EXCEPT ![p] = "merge"]
                    /\ UNCHANGED <<ret, faulted>>
               [] outcome = "create_fails" ->
                    /\ OnStoreError(p)
                    /\ faulted' = [faulted EXCEPT ![p] = TRUE]
                    /\ UNCHANGED <<tables, staged>>
               [] outcome = "insert_fails" ->
                    /\ tables' = [n \in DOMAIN tables \cup {name} |->
                                     IF n = name
                                     THEN [full EXCEPT !.rows = <<>>]
                                     ELSE tables[n]]
                    /\ staged' = [staged EXCEPT ![p] = TRUE]
                    /\ faulted' = [faulted EXCEPT ![p] = TRUE]
                    /\ OnStoreError(p)
    /\ UNCHANGED <<ohlcv, now, df, records, temp_table_name, before, callno,
                   peers, calls, log, YF_RETRIES, fetchVars, qres, cycleVars>>

\* lines 40-64: the merge statement, the commit, DROP TABLE and the return;
\* any exception goes to lines 62-64, which return 0 and drop nothing
ExecuteMerge(p) ==
    /\ pc[p] = "merge"
    /\ LET name == temp_table_name[p]
       IN IF ~MergeRuns(name)
          THEN /\ OnStoreError(p)
               /\ UNCHANGED <<ohlcv, tables, faulted>>
          ELSE \E outcome \in {"ok", "execute_fails", "commit_fails", "drop_fails"} :
                  LET merged == MergeInto(ohlcv, tables[name].rows)
                      dropped == [n \in DOMAIN tables \ {name} |-> tables[n]]
                  IN /\ faulted' = [faulted EXCEPT ![p] = outcome # "ok"]
                     /\ CASE outcome = "ok" ->
                            /\ ohlcv' = merged
                            /\ tables' = dropped
                            /\ Return(p, Len(records[p]))
                       [] outcome = "drop_fails" ->
                            /\ ohlcv' = merged
                            /\ OnStoreError(p)
                            /\ UNCHANGED tables
                       [] OTHER ->
                            /\ OnStoreError(p)
                            /\ UNCHANGED <<ohlcv, tables>>
    /\ UNCHANGED <<now, df, records, temp_table_name, before, staged, callno,
                   peers, calls, log, YF_RETRIES, fetchVars, qres, cycleVars>>

\* what the call of thread p did, recorded when it returns
LogEntry(p) ==
    [thread |-> p, df |-> df[p], records |-> records[p],
     before |-> before[p], after |-> ohlcv,
     ret |-> ret[p], faulted |-> faulted[p],
     callno |-> callno[p], peers |-> peers[p],
     leaked |-> /\ staged[p]
                /\ temp_table_name[p] \in DOMAIN tables
                /\ tables[temp_table_name[p]].owner = p]

\* the request handler takes the count (main.py:125-130, 160-174)
UpsertReturn(p) ==
    /\ pc[p] = "upsert_ret"
    /\ ~job[p]
    /\ pc' = [pc EXCEPT ![p] = "idle"]
    /\ log' = Append(log, LogEntry(p))
    /\ UNCHANGED <<ohlcv, tables, now, df, records, temp_table_name, ret,
                   before, staged, faulted, callno, peers, calls,
                   YF_RETRIES, fetchVars, qres, cycleVars>>

\* the wall clock advances
Tick ==
    /\ now < MaxTicks
    /\ now' = now + 1
    /\ UNCHANGED <<ohlcv, tables, pc, upsertVars, YF_RETRIES, fetchVars, qres, cycleVars>>

-----------------------------------------------------------------------------
(* fetch_historical_ohlcv, stock_service.py:11-68 *)

\* line 22
max_retries == 3

\* symbol.upper()
Upper(s) == CASE s = "a" -> "A" [] s = "b" -> "B" [] OTHER -> s

\* cells of the provider's frame: a number, NaN (absent), a string that is
\* no number, a string that holds a number
Num(v) == [k |-> "num", v |-> v]
NaN == [k |-> "nan", v |-> 0]
Text == [k |-> "text", v |-> 0]
NumText(v) == [k |-> "numtext", v |-> v]

ProviderColumns == {"Open", "High", "Low", "Close", "Volume", "AdjClose"}

\* a complete provider row for timestamp t
RawBar(t, x) ==
    [Date |-> t, Open |-> Num(x), High |-> Num(x + 10), Low |-> Num(x + 20),
     Close |-> Num(x + 30), Volume |-> Num(x + 40), AdjClose |-> Num(x + 30)]

\* the provider rows for timestamp t: complete, or with one cell that is
\* absent, not a number, or a number held in a string
RawRows(t) ==
    {RawBar(t, t)} \cup
    {[RawBar(t, t) EXCEPT ![c] = NaN] : c \in ProviderColumns} \cup
    {[RawBar(t, t) EXCEPT ![c] = Text] : c \in ProviderColumns \ {"AdjClose"}} \cup
    {[RawBar(t, t) EXCEPT ![c] = NumText(t + 50)] :
        c \in ProviderColumns \ {"AdjClose"}}

\* the frames yf.download can return: rows for timestamps 1..n, n <= MaxDt
RawFrames ==
    UNION {{f \in [1..n -> UNION {RawRows(t) : t \in 1..n}] :
               \A i \in 1..n : f[i].Date = i} : n \in 0..MaxDt}

\* lines 46-48: keep the five columns, reset the index, rename, add symbol
SelectColumnsOf(s, r) ==
    [symbol |-> Upper(s), dt |-> r.Date, open |-> r.Open, high |-> r.High,
     low |-> r.Low, close |-> r.Close, volume |-> r.Volume]

\* dropna(subset=['close'])
IsNaClose(r) == r.close.k = "nan"

\* lines 51 and 61: df.dropna() drops the rows with a NaN cell
IsNa(r) == \E f \in PriceFields : r[f].k = "nan"
NotNa(r) == ~IsNa(r)

\* df.dropna() with its result thrown away
DropNaUnassigned(rows) == rows

\* lines 51 and 61: df = df.dropna()
DropNa(rows) == SelectSeq(rows, NotNa)

\* lines 54-58: pd.to_numeric(errors='coerce')
ToNumeric(c) == IF c.k \in {"num", "numtext"} THEN Num(c.v) ELSE NaN
CoerceRow(r) ==
    [c \in DfColumns |-> IF c \in PriceFields THEN ToNumeric(r[c]) ELSE r[c]]

\* NULL in a column of the table, None in a dict
None == -1

\* the values of a row as they go to the store: NaN is written as NULL
ValuesOf(r) ==
    [c \in DfColumns |->
        IF c \notin PriceFields THEN r[c]
        ELSE IF r[c].k = "nan" THEN None ELSE r[c].v]

\* lines 46-64
Normalize(s, frame) ==
    LET selected == [i \in 1..Len(frame) |-> SelectColumnsOf(s, frame[i])]
        clean == DropNa(selected)
        coerced == [i \in 1..Len(clean) |-> CoerceRow(clean[i])]
        final == DropNa(coerced)
    IN [i \in 1..Len(final) |-> ValuesOf(final[i])]

\* the error of the last attempt raised to the caller
OnExhaustedRaises == [df |-> <<>>, raised |-> TRUE]

\* lines 35-37: the last attempt failed
OnExhausted == [df |-> <<>>, raised |-> FALSE]

\* lines 41-68: yf.download returned frame
OnResponse(s, frame) ==
    IF frame = <<>>
    THEN [df |-> <<>>, raised |-> FALSE]
    ELSE [df |-> Normalize(s, frame), raised |-> FALSE]

\* lines 66-68: anything raised outside the retry loop
OnError == [df |-> <<>>, raised |-> FALSE]

\* a linear delay
BackoffLinear(k) == 2 * k

\* line 39: time.sleep(2 ** attempt)
Backoff(k) == 2 ^ k

\* line 35
LastAttempt(k) == k = max_retries - 1

FetchLeave(p, result, reason) ==
    /\ fetched' = [fetched EXCEPT ![p] = result]
    /\ why' = [why EXCEPT ![p] = reason]
    /\ pc' = [pc EXCEPT ![p] = "fetch_ret"]

\* an empty answer taken for a failed attempt
BreaksIfRows(frame) == frame # <<>>

\* lines 25-33: when yf.download returns, break leaves the retry loop
Breaks(frame) == TRUE

\* lines 11-23: the call, up to the first attempt
FetchEnter(p, s) ==
    /\ symbol' = [symbol EXCEPT ![p] = s]
    /\ attempt' = [attempt EXCEPT ![p] = 0]
    /\ raw' = [raw EXCEPT ![p] = <<>>]
    /\ fetched' = [fetched EXCEPT ![p] = [df |-> <<>>, raised |-> FALSE]]
    /\ slept' = [slept EXCEPT ![p] = <<>>]
    /\ tries' = [tries EXCEPT ![p] = 0]
    /\ why' = [why EXCEPT ![p] = "none"]
    /\ pc' = [pc EXCEPT ![p] = "download"]

\* a request handler calls fetch_historical_ohlcv (main.py:120)
FetchCall(p, s) ==
    /\ pc[p] = "idle"
    /\ FetchEnter(p, s)
    /\ UNCHANGED <<ohlcv, tables, now, upsertVars, qres, cycleVars, YF_RETRIES>>

\* lines 23-68: one attempt of the retry loop; an answer of the provider
\* leaves the loop and is normalised
Download(p, frames) ==
    /\ pc[p] = "download"
    /\ tries' = [tries EXCEPT ![p] = @ + 1]
    /\ \/ \* yf.download raised
          IF LastAttempt(attempt[p])
          THEN /\ FetchLeave(p, OnExhausted, "exhausted")
               /\ UNCHANGED raw
          ELSE /\ pc' = [pc EXCEPT ![p] = "sleep"]
               /\ UNCHANGED <<raw, fetched, why>>
       \/ \* yf.download returned a frame
          \E frame \in frames :
             /\ raw' = [raw EXCEPT ![p] = frame]
             /\ IF Breaks(frame)
                THEN FetchLeave(p, OnResponse(symbol[p], frame),
                                IF frame = <<>> THEN "no_rows" ELSE "rows")
                ELSE /\ why' = [why EXCEPT ![p] = "no_rows"]
                     /\ IF LastAttempt(attempt[p])
                        THEN /\ fetched' = [fetched EXCEPT ![p] = OnExhausted]
                             /\ pc' = [pc EXCEPT ![p] = "fetch_ret"]
                        ELSE /\ pc' = [pc EXCEPT ![p] = "sleep"]
                             /\ UNCHANGED fetched
       \/ \* yf.download returned something lines 46-64 cannot handle
          /\ FetchLeave(p, OnError, "error")
          /\ UNCHANGED raw
    /\ UNCHANGED <<ohlcv, tables, now, upsertVars, qres, cycleVars, YF_RETRIES, symbol,
                   attempt, slept>>

\* lines 38-39: the backoff before the next attempt
Sleep(p) ==
    /\ pc[p] = "sleep"
    /\ slept' = [slept EXCEPT ![p] = Append(@, Backoff(attempt[p]))]
    /\ attempt' = [attempt EXCEPT ![p] = @ + 1]
    /\ pc' = [pc EXCEPT ![p] = "download"]
    /\ UNCHANGED <<ohlcv, tables, now, upsertVars, qres, cycleVars, YF_RETRIES, symbol, raw,
                   fetched, tries, why>>

\* the request handler takes the DataFrame (main.py:120-122)
FetchReturn(p) ==
    /\ pc[p] = "fetch_ret"
    /\ ~job[p]
    /\ pc' = [pc EXCEPT ![p] = "idle"]
    /\ UNCHANGED <<ohlcv, tables, now, upsertVars, qres, cycleVars, YF_RETRIES, fetchVars, qres, cycleVars>>

\* pd.to_datetime of the string strftime("%Y-%m-%d %H:%M:%S") made
ToDatetime(str) == str[2]

\* stock_service.py:80-93 and main.py:160-170: the last row of the frame,
\* its numbers through float(), its time through a string and back
LatestFrame(d) ==
    LET latest == d[Len(d)]
    IN << [symbol |-> latest.symbol,
           dt |-> ToDatetime(<<"%Y-%m-%d %H:%M:%S", latest.dt>>),
           open |-> latest.open, high |-> latest.high, low |-> latest.low,
           close |-> latest.close, volume |-> latest.volume] >>

\* GET /stock/{symbol}/history with store (main.py:120-130): the frame that
\* was fetched goes to upsert_ohlcv_from_df
HistoryStore(p) ==
    /\ pc[p] = "fetch_ret"
    /\ ~job[p]
    /\ fetched[p].df # <<>>
    /\ calls < MaxCalls
    /\ UpsertEnter(p, fetched[p].df)
    /\ UNCHANGED <<ohlcv, tables, now, log, YF_RETRIES, fetchVars, qres,
                   cycleVars>>

\* GET /stock/{symbol}/latest with store (main.py:154-172): the last bar
\* that was fetched goes to upsert_ohlcv_from_df
LatestStore(p) ==
    /\ pc[p] = "fetch_ret"
    /\ ~job[p]
    /\ fetched[p].df # <<>>
    /\ calls < MaxCalls
    /\ UpsertEnter(p, LatestFrame(fetched[p].df))
    /\ UNCHANGED <<ohlcv, tables, now, log, YF_RETRIES, fetchVars, qres,
                   cycleVars>>

-----------------------------------------------------------------------------
(* query_ohlcv, storage_service.py:66-101 *)

\* the earliest row
Earliest(rows) == CHOOSE r \in rows : \A q \in rows : r.dt <= q.dt

\* the first row of ORDER BY dt DESC
Latest(rows) == CHOOSE r \in rows : \A q \in rows : q.dt <= r.dt

\* lines 72-81: WHERE symbol = :symbol ORDER BY dt DESC LIMIT :limit
RECURSIVE OrderByDtDescLimit(_, _)
OrderByDtDescLimit(rows, limit) ==
    IF limit = 0 \/ rows = {} THEN <<>>
    ELSE LET first == Latest(rows)
         IN <<first>> \o OrderByDtDescLimit(rows \ {first}, limit - 1)

SelectWhereSymbol(rows, s) == {r \in rows : r.symbol = s}

\* line 88: row.dt.strftime("%Y-%m-%d %H:%M:%S")
DtString(t) == <<"%Y-%m-%d %H:%M:%S", t>>

\* lines 89-93: float(v) if v else None
FloatOrNone(v) == IF v = None \/ v = 0 THEN None ELSE v

\* lines 86-95
RowToDict(r) ==
    [symbol |-> r.symbol, dt |-> DtString(r.dt), open |-> FloatOrNone(r.open),
     high |-> FloatOrNone(r.high), low |-> FloatOrNone(r.low),
     close |-> FloatOrNone(r.close), volume |-> FloatOrNone(r.volume),
     source |-> r.source]

\* lines 70-97, the store answering
QueryData(rows, s, limit) ==
    LET found == OrderByDtDescLimit(SelectWhereSymbol(rows, Upper(s)), limit)
    IN [i \in 1..Len(found) |-> RowToDict(found[i])]

\* lines 66-101: the whole call; a store error returns the empty list
Query(p, s, limit) ==
    /\ pc[p] = "idle"
    /\ \E ok \in BOOLEAN :
          qres' = [qres EXCEPT ![p] =
                      [symbol |-> s, limit |-> limit, ok |-> ok,
                       data |-> IF ok THEN QueryData(ohlcv, s, limit)
                                ELSE <<>>]]
    /\ UNCHANGED <<ohlcv, tables, now, pc, upsertVars, YF_RETRIES, fetchVars,
                   cycleVars>>

-----------------------------------------------------------------------------
(* job_fetch_and_store, fetch_jobs.py:9-23 *)

\* the list walked from its end
CurrentSymbolReversed(p) == symbols[p][Len(symbols[p]) + 1 - idx[p]]

\* line 14: for s in symbols, s in the iteration the loop is in
CurrentSymbol(p) == symbols[p][idx[p]]

\* the cycle goes on to the next symbol
NextSymbol(p, entry) ==
    /\ report' = [report EXCEPT ![p] = Append(@, entry)]
    /\ idx' = [idx EXCEPT ![p] = @ + 1]
    /\ pc' = [pc EXCEPT ![p] = "cycle"]

\* the scheduler or POST /trigger/fetch calls job_fetch_and_store
\* (fetch_jobs.py:33, main.py:52, 251); a thread runs one cycle in a behaviour
CycleStart(p, list) ==
    /\ pc[p] = "idle"
    /\ ~job[p]
    /\ report[p] = <<>>
    /\ job' = [job EXCEPT ![p] = TRUE]
    /\ symbols' = [symbols EXCEPT ![p] = list]
    /\ idx' = [idx EXCEPT ![p] = 1]
    /\ pc' = [pc EXCEPT ![p] = "cycle"]
    /\ UNCHANGED <<ohlcv, tables, now, upsertVars, YF_RETRIES, fetchVars,
                   qres, report>>

\* lines 14-16: the next symbol of the loop is fetched
CycleFetch(p) ==
    /\ pc[p] = "cycle"
    /\ idx[p] <= Len(symbols[p])
    /\ FetchEnter(p, CurrentSymbol(p))
    /\ UNCHANGED <<ohlcv, tables, now, upsertVars, YF_RETRIES, qres,
                   cycleVars>>

\* lines 16-22: the fetch is back; bars go to upsert_ohlcv_from_df, an empty
\* DataFrame is logged as a warning, an exception is logged by line 22
CycleAfterFetch(p) ==
    /\ pc[p] = "fetch_ret"
    /\ job[p]
    /\ LET s == CurrentSymbol(p)
       IN IF fetched[p].raised
          THEN /\ NextSymbol(p, [symbol |-> s, df |-> <<>>, msg |-> "error",
                                 ret |-> 0, faulted |-> FALSE])
               /\ UNCHANGED upsertVars
          ELSE IF fetched[p].df # <<>>
          THEN /\ UpsertEnter(p, fetched[p].df)
               /\ UNCHANGED <<log, idx, report>>
          ELSE /\ NextSymbol(p, [symbol |-> s, df |-> <<>>, msg |-> "no_data",
                                 ret |-> 0, faulted |-> FALSE])
               /\ UNCHANGED upsertVars
    /\ UNCHANGED <<ohlcv, tables, now, YF_RETRIES, fetchVars, qres, symbols,
                   job>>

\* lines 18-19: upsert_ohlcv_from_df is back; its count is dropped and
\* "Inserted len(df) rows" is logged
CycleAfterUpsert(p) ==
    /\ pc[p] = "upsert_ret"
    /\ job[p]
    /\ NextSymbol(p, [symbol |-> CurrentSymbol(p), df |-> df[p],
                      msg |-> "inserted", ret |-> ret[p],
                      faulted |-> faulted[p]])
    /\ log' = Append(log, LogEntry(p))
    /\ UNCHANGED <<ohlcv, tables, now, df, records, temp_table_name, ret,
                   before, staged, faulted, callno, peers, calls,
                   YF_RETRIES, fetchVars, qres, symbols, job>>

\* a loop that waits for one symbol more than the list holds
LoopOverLate(p) == idx[p] > Len(symbols[p]) + 1

\* line 14: the for loop has been through the list
LoopOver(p) == idx[p] > Len(symbols[p])

\* line 14: the loop is over, job_fetch_and_store returns
CycleEnd(p) ==
    /\ pc[p] = "cycle"
    /\ LoopOver(p)
    /\ job' = [job EXCEPT ![p] = FALSE]
    /\ pc' = [pc EXCEPT ![p] = "idle"]
    /\ UNCHANGED <<ohlcv, tables, now, upsertVars, YF_RETRIES, fetchVars,
                   qres, symbols, idx, report>>

-----------------------------------------------------------------------------
(* Specifications *)

\* no fetch has been started
InitFetchVars ==
    /\ symbol = [p \in Threads |-> ""]
    /\ attempt = [p \in Threads |-> 0]
    /\ raw = [p \in Threads |-> <<>>]
    /\ fetched = [p \in Threads |-> [df |-> <<>>, raised |-> FALSE]]
    /\ slept = [p \in Threads |-> <<>>]
    /\ tries = [p \in Threads |-> 0]
    /\ why = [p \in Threads |-> "none"]

\* no query has been made, no cycle is running
InitOtherVars ==
    /\ qres = [p \in Threads |-> [symbol |-> "", limit |-> 0, ok |-> FALSE,
                                  data |-> <<>>]]
    /\ symbols = [p \in Threads |-> <<>>]
    /\ idx = [p \in Threads |-> 0]
    /\ job = [p \in Threads |-> FALSE]
    /\ report = [p \in Threads |-> <<>>]

\* no upsert has been started
InitUpsertVars ==
    /\ df = [p \in Threads |-> <<>>]
    /\ records = [p \in Threads |-> <<>>]
    /\ temp_table_name = [p \in Threads |-> NoTable]
    /\ ret = [p \in Threads |-> 0]
    /\ before = [p \in Threads |-> {}]
    /\ staged = [p \in Threads |-> FALSE]
    /\ faulted = [p \in Threads |-> FALSE]
    /\ callno = [p \in Threads |-> 0]
    /\ peers = [p \in Threads |-> {}]
    /\ calls = 0
    /\ log = <<>>

\* the store as the process finds it, default settings, every thread idle
Init ==
    /\ ohlcv \in InitStores
    /\ YF_RETRIES = DefaultRetries
    /\ InitFetchVars
    /\ InitUpsertVars
    /\ InitOtherVars
    /\ tables = <<>>
    /\ now = 0
    /\ pc = [p \in Threads |-> "idle"]

UpsertStep(p) ==
    \/ \E d \in Batches : UpsertCall(p, d)
    \/ Connect(p)
    \/ ToSql(p)
    \/ ExecuteMerge(p)
    \/ UpsertReturn(p)

\* one request handler fetching, for every value of the retry setting
InitFetch ==
    /\ ohlcv = {}
    /\ YF_RETRIES \in 1..MaxRetriesSetting
    /\ InitFetchVars
    /\ InitUpsertVars
    /\ InitOtherVars
    /\ tables = <<>>
    /\ now = 0
    /\ pc = [p \in Threads |-> "idle"]

NextFetch ==
    \/ \E s \in {"a", "A", "B"} : FetchCall("req", s)
    \/ Download("req", RawFrames)
    \/ Sleep("req")
    \/ FetchReturn("req")

SpecFetch == InitFetch /\ [][NextFetch]_vars

\* one caller at a time
NextSeq == Tick \/ UpsertStep("req")
SpecSeq == Init /\ [][NextSeq]_vars

\* a scheduled cycle and an on-demand request run concurrently
Next == Tick \/ \E p \in Threads : UpsertStep(p)
Spec == Init /\ [][Next]_vars

\* two threads, each calling upsert once, every interleaving of their steps
NextPair ==
    \/ Tick
    \/ \E p \in Threads :
          \/ \E d \in Batches : callno[p] = 0 /\ UpsertCall(p, d)
          \/ Connect(p)
          \/ ToSql(p)
          \/ ExecuteMerge(p)
          \/ UpsertReturn(p)

SpecPair == Init /\ [][NextPair]_vars

\* rows the table can hold for QueryService: any subset of one row per key
QueryKeys == {"A", "B"} \X (1..MaxDt + 1)
QueryStores ==
    {{Stored(Bar(k[1], k[2], k[2]), 0) : k \in ks} : ks \in SUBSET QueryKeys}
       \cup {{Stored(Bar("A", 1, 0), 0)}}
       \cup {{[Stored(Bar("A", 1, 1), 0) EXCEPT !.volume = 0]}}

InitQuery ==
    /\ ohlcv \in QueryStores
    /\ YF_RETRIES = DefaultRetries
    /\ InitFetchVars
    /\ InitUpsertVars
    /\ InitOtherVars
    /\ tables = <<>>
    /\ now = 0
    /\ pc = [p \in Threads |-> "idle"]

NextQuery ==
    \E s \in {"a", "A", "B", "C"}, limit \in 0..MaxDt + 2 : Query("req", s, limit)

SpecQuery == InitQuery /\ [][NextQuery]_vars

\* what the provider answers during a cycle
CycleFrames ==
    { <<>>,
      <<RawBar(1, 1)>>,
      <<RawBar(1, 1), [RawBar(2, 2) EXCEPT !.Close = NaN]>> }

CycleLists == { <<"A">>, <<"A", "B">>, <<"A", "B", "C">> }

NextCycle ==
    \/ Tick
    \/ \E list \in CycleLists : CycleStart("sched", list)
    \/ CycleFetch("sched")
    \/ Download("sched", CycleFrames)
    \/ Sleep("sched")
    \/ CycleAfterFetch("sched")
    \/ Connect("sched")
    \/ ToSql("sched")
    \/ ExecuteMerge("sched")
    \/ CycleAfterUpsert("sched")
    \/ CycleEnd("sched")

SpecCycle == Init /\ [][NextCycle]_vars

\* the steps of a running cycle: each of them is a call that returns or
\* fails, or the thread going on to its next statement
CycleRun(p) ==
    \/ CycleFetch(p)
    \/ Download(p, CycleFrames)
    \/ Sleep(p)
    \/ CycleAfterFetch(p)
    \/ Connect(p)
    \/ ToSql(p)
    \/ ExecuteMerge(p)
    \/ CycleAfterUpsert(p)
    \/ CycleEnd(p)

\* the thread of a cycle keeps running: a step it can take is taken
SpecCycleFair == SpecCycle /\ WF_vars(CycleRun("sched"))

\* no request has been served and no cycle has run
Fresh ==
    /\ calls = 0
    /\ \A p \in Threads : pc[p] = "idle" /\ ~job[p] /\ tries[p] = 0

\* no cycle has been started
NoCycle == report["sched"] = <<>> /\ ~job["sched"]

\* what the provider answers to a request: as in a cycle, or two complete rows
RequestFrames == CycleFrames \cup { <<RawBar(1, 1), RawBar(2, 2)>> }

\* every path that hands bars to the store; a behaviour follows either the
\* request handlers on thread req, one of whose requests stores, or one
\* cycle on thread sched
NextIngest ==
    \/ Tick
    \/ NoCycle /\ FetchCall("req", "a")
    \/ NoCycle /\ Download("req", RequestFrames)
    \/ NoCycle /\ Sleep("req")
    \/ NoCycle /\ FetchReturn("req")
    \/ NoCycle /\ calls = 0 /\ HistoryStore("req")
    \/ NoCycle /\ calls = 0 /\ LatestStore("req")
    \/ NoCycle /\ Connect("req")
    \/ NoCycle /\ ToSql("req")
    \/ NoCycle /\ ExecuteMerge("req")
    \/ NoCycle /\ UpsertReturn("req")
    \/ \E list \in CycleLists : Fresh /\ CycleStart("sched", list)
    \/ CycleFetch("sched")
    \/ Download("sched", CycleFrames)
    \/ Sleep("sched")
    \/ CycleAfterFetch("sched")
    \/ Connect("sched")
    \/ ToSql("sched")
    \/ ExecuteMerge("sched")
    \/ CycleAfterUpsert("sched")
    \/ CycleEnd("sched")

SpecIngest == Init /\ [][NextIngest]_vars

-----------------------------------------------------------------------------
(* Properties of upsert_ohlcv_from_df *)

LogIdx == 1..Len(log)
BarsOf(d) == {d[i] : i \in 1..Len(d)}

\* the time of the call as a DATETIME value
CallTime(e) == DbDateTime(e.records[1].created_at)

\* C1: upserting the same non-empty batch twice in a row leaves the store
\* with the same keys, row count and open/high/low/close/volume as upserting
\* it once, and every bar of the batch carries the createdAt the first call
\* set (a bar that was absent before the first call is stored with the first
\* call's time).
C1_Idempotent ==
    \A i \in LogIdx : i + 1 \in LogIdx =>
        LET e1 == log[i]
            e2 == log[i + 1]
        IN (e1.df # <<>> /\ e2.df = e1.df /\ ~e1.faulted /\ ~e2.faulted) =>
              /\ Keys(e2.after) = Keys(e1.after)
              /\ Cardinality(e2.after) = Cardinality(e1.after)
              /\ \A k \in Keys(e1.after) :
                    /\ Prices(RowOf(e2.after, k)) = Prices(RowOf(e1.after, k))
                    /\ RowOf(e2.after, k).created_at
                          = RowOf(e1.after, k).created_at
              /\ \A b \in BarsOf(e1.df) :
                    Key(b) \notin Keys(e1.before) =>
                       /\ Key(b) \in Keys(e2.after)
                       /\ RowOf(e2.after, Key(b)).created_at = CallTime(e1)

\* C2: when upsert receives a bar whose key is already stored, the stored
\* bar takes the incoming open, high, low, close, volume and updatedAt and
\* keeps its symbol, timestamp and createdAt; every stored bar whose key is
\* not in the batch is left unchanged.
C2_ConflictResolution ==
    \A i \in LogIdx :
        LET e == log[i]
        IN (e.df # <<>> /\ ~e.faulted) =>
              /\ \A b \in BarsOf(e.df) :
                    Key(b) \in Keys(e.before) =>
                       /\ Key(b) \in Keys(e.after)
                       /\ Prices(RowOf(e.after, Key(b))) = Prices(b)
                       /\ RowOf(e.after, Key(b)).updated_at = CallTime(e)
                       /\ RowOf(e.after, Key(b)).created_at
                             = RowOf(e.before, Key(b)).created_at
              /\ \A r \in e.before :
                    Key(r) \notin Keys(BarsOf(e.df)) => r \in e.after

\* C3: after any upsert call returns, whether the merge succeeded or a step
\* failed, the staging table that call created no longer exists.
C3_StagingReleased ==
    \A i \in LogIdx : ~log[i].leaked

\* C4: when two upsert calls carrying different bars for the same key run
\* concurrently, the stored bar for that key ends with open, high, low,
\* close and volume all taken from one single incoming bar.
C4_PerKeyAtomic ==
    \A i, j \in LogIdx :
        LET e1 == log[i]
            e2 == log[j]
        IN (/\ i < j
            /\ e1.thread # e2.thread
            /\ e2.peers = {e1.callno}
            /\ ~e1.faulted /\ ~e2.faulted) =>
              \A b1 \in BarsOf(e1.df), b2 \in BarsOf(e2.df) :
                 (Key(b1) = Key(b2) /\ Prices(b1) # Prices(b2)) =>
                    /\ Key(b1) \in Keys(e2.after)
                    /\ Prices(RowOf(e2.after, Key(b1)))
                          \in {Prices(b1), Prices(b2)}

-----------------------------------------------------------------------------
(* Properties of fetch_historical_ohlcv *)

\* C5: when the provider call fails on every attempt, fetch makes exactly
\* the configured maximum number of attempts (the maximum-retry-attempts
\* setting), then returns an empty result without raising.
C5_RetryExhaustion ==
    \A p \in Threads :
        (pc[p] = "fetch_ret" /\ why[p] = "exhausted") =>
            /\ tries[p] = YF_RETRIES
            /\ fetched[p].df = <<>>
            /\ ~fetched[p].raised

\* C6: after the failed attempt with index k that is not the last allowed
\* one the client waits 2^k seconds (1, then 2) before attempt k+1; the
\* delays never decrease, and no delay follows the final failed attempt or
\* a successful attempt.
C6_BackoffSchedule ==
    \A p \in Threads :
        LET d == slept[p]
        IN /\ \A i \in 1..Len(d) : d[i] = IF i = 1 THEN 1 ELSE 2 * d[i - 1]
           /\ \A i \in 1..Len(d) - 1 : d[i] <= d[i + 1]
           /\ pc[p] = "download" => Len(d) = tries[p]
           /\ pc[p] = "sleep" => Len(d) = tries[p] - 1 /\ tries[p] < 3
           /\ why[p] # "none" => Len(d) = tries[p] - 1
           /\ why[p] = "exhausted" => d = <<1, 2>>

C6_Witness ==
    \E p \in Threads :
        pc[p] = "fetch_ret" /\ why[p] = "exhausted" /\ slept[p] = <<1, 2>>

\* C7: a provider answer with no rows ends the fetch in the no-data outcome
\* (the empty DataFrame every caller reads as "no data"), not in a
\* successful result, and a transport failure on every attempt ends in that
\* same outcome; neither raises.
C7_NoDataOutcome ==
    \A p \in Threads :
        (pc[p] = "fetch_ret" /\ why[p] \in {"no_rows", "exhausted"}) =>
            /\ fetched[p].df = <<>>
            /\ ~fetched[p].raised
            /\ why[p] = "no_rows" => (raw[p] = <<>> /\ tries[p] >= 1)
            /\ why[p] = "exhausted" => tries[p] = Len(slept[p]) + 1

C7_Witness ==
    \E p \in Threads :
        /\ pc[p] = "fetch_ret" /\ why[p] = "no_rows"
        /\ tries[p] = 2 /\ fetched[p].df = <<>>

\* the raw rows in which open, high, low, close and volume are all present
\* and numeric
ValidRaw(r) ==
    \A c \in {"Open", "High", "Low", "Close", "Volume"} :
        r[c].k \in {"num", "numtext"}

\* C8: the normalizer's output holds exactly the raw rows in which open,
\* high, low, close and volume are all present and numeric, in their
\* original order: n raw rows with k invalid rows yield n - k bars, and
\* normalization never raises.
C8_ValidationDropping ==
    \A p \in Threads :
        (pc[p] = "fetch_ret" /\ why[p] \in {"rows", "no_rows"}) =>
            LET in == raw[p]
                out == fetched[p].df
                valid == {i \in 1..Len(in) : ValidRaw(in[i])}
            IN /\ ~fetched[p].raised
               /\ Len(out) = Len(in) - Cardinality((1..Len(in)) \ valid)
               /\ \A i \in valid :
                     \E j \in 1..Len(out) :
                        /\ out[j].dt = in[i].Date
                        /\ out[j].open = in[i].Open.v
                        /\ out[j].high = in[i].High.v
                        /\ out[j].low = in[i].Low.v
                        /\ out[j].close = in[i].Close.v
                        /\ out[j].volume = in[i].Volume.v
               /\ \A j \in 1..Len(out) :
                     \E i \in valid : out[j].dt = in[i].Date
               /\ \A j \in 1..Len(out) - 1 : out[j].dt < out[j + 1].dt

C8_Witness ==
    \E p \in Threads :
        /\ pc[p] = "fetch_ret" /\ why[p] = "rows"
        /\ Len(raw[p]) = 2
        /\ raw[p][1].Close = NaN
        /\ ValidRaw(raw[p][2])
        /\ Len(fetched[p].df) = 1
        /\ fetched[p].df[1].dt = 2

-----------------------------------------------------------------------------
(* Properties of query_ohlcv *)

Min(a, b) == IF a < b THEN a ELSE b

\* C9: for every store content, symbol and limit >= 1, history(symbol,
\* limit), when the store answers, returns exactly the min(limit, n) stored
\* bars of the symbol with the greatest timestamps (n = number of stored bars
\* of the symbol), in strictly descending timestamp order, and no bar of
\* another symbol.
C9_QueryOrderAndLimit ==
    \A p \in Threads :
        LET q == qres[p]
            out == q.data
            mine == {r \in ohlcv : r.symbol = Upper(q.symbol)}
            dts == {out[j].dt[2] : j \in 1..Len(out)}
        IN (q.ok /\ q.limit >= 1) =>
              /\ Len(out) = Min(q.limit, Cardinality(mine))
              /\ \A j \in 1..Len(out) : out[j].symbol = Upper(q.symbol)
              /\ \A j \in 1..Len(out) - 1 : out[j].dt[2] > out[j + 1].dt[2]
              /\ \A r \in mine :
                    r.dt \in dts <=>
                       Cardinality({o \in mine : o.dt > r.dt}) < q.limit
              /\ dts \subseteq {r.dt : r \in mine}

C9_Witness ==
    \E p \in Threads :
        /\ qres[p].ok /\ qres[p].limit = 2 /\ qres[p].symbol = "a"
        /\ Cardinality({r \in ohlcv : r.symbol = "A"}) = 3
        /\ \E r \in ohlcv : r.symbol = "B"
        /\ Len(qres[p].data) = 2
        /\ qres[p].data[1].dt = DtString(3)
        /\ qres[p].data[2].dt = DtString(2)

-----------------------------------------------------------------------------
(* Properties of job_fetch_and_store *)

CycleOver(p) == pc[p] = "idle" /\ ~job[p] /\ symbols[p] # <<>>

\* C10: in an ingestion cycle over a list of symbols in which some symbol
\* yields no data, every other symbol of the list (one whose fetch returned
\* bars and whose store calls did not fail) has its fetched bars upserted,
\* and the cycle finishes, every symbol processed, without propagating an
\* error.
C10_PartialFailureIsolation ==
    \A p \in Threads :
        (CycleOver(p) /\ \E i \in 1..Len(report[p]) : report[p][i].df = <<>>) =>
            /\ Len(report[p]) = Len(symbols[p])
            /\ \A i \in 1..Len(report[p]) :
                  LET e == report[p][i]
                  IN /\ e.symbol = symbols[p][i]
                     /\ e.msg # "error"
                     /\ (e.df # <<>> /\ ~e.faulted) =>
                           \A b \in BarsOf(e.df) :
                              /\ Key(b) \in Keys(ohlcv)
                              /\ Prices(RowOf(ohlcv, Key(b))) = Prices(b)

-----------------------------------------------------------------------------
\* C11: a call of upsert with an empty batch returns 0 without touching the
\* store: it opens no connection (no staging-table name is taken and no store
\* fault can be met), it creates no staging table, and the stored bars are
\* those found when the call began
C11_EmptyInputSafety ==
    /\ \A p \in Threads :
          (pc[p] = "upsert_ret" /\ df[p] = <<>>) =>
             /\ ret[p] = 0
             /\ temp_table_name[p] = NoTable
             /\ ~faulted[p]
             /\ ~staged[p]
             /\ records[p] = <<>>
             /\ ohlcv = before[p]
    /\ \A i \in LogIdx :
          log[i].df = <<>> =>
             /\ log[i].ret = 0
             /\ ~log[i].faulted
             /\ ~log[i].leaked
             /\ log[i].after = log[i].before

\* an empty batch was handed to upsert over a store that holds a bar, after
\* an earlier call had left its staging table behind
C11_Witness ==
    /\ ohlcv # {}
    /\ DOMAIN tables # {}
    /\ pc["req"] = "upsert_ret"
    /\ df["req"] = <<>>
    /\ ret["req"] = 0

-----------------------------------------------------------------------------
\* C12: a call of upsert whose merge step completes (no step of it is failed
\* by the store) returns the number of rows of its batch, whether those rows
\* were inserted or overwrote stored bars
C12_ReturnCount ==
    \A i \in LogIdx :
       (log[i].df # <<>> /\ ~log[i].faulted) => log[i].ret = Len(log[i].df)

-----------------------------------------------------------------------------
\* C13: a failure of any step of upsert (the store cannot be reached, the
\* staging write fails, the merge statement fails) is absorbed: the call
\* raises nothing and returns 0, and a cycle that met the failure goes on to
\* the symbols after it and ends having handled every symbol of its list
C13_StorageFailureAbsorbed ==
    \A p \in Threads :
       /\ pc[p] # "upsert_raised"
       /\ (pc[p] = "upsert_ret" /\ faulted[p]) => ret[p] = 0
       /\ (/\ pc[p] = "upsert_ret"
           /\ staged[p]
           /\ temp_table_name[p] \in DOMAIN tables
           /\ ~MergeRuns(temp_table_name[p])) => ret[p] = 0
       /\ \A i \in 1..Len(report[p]) :
             report[p][i].faulted => report[p][i].ret = 0
       /\ CycleOver(p) => Len(report[p]) = Len(symbols[p])

\* the store failed the upsert of the first symbol of a cycle, the call
\* returned 0 and the cycle has gone on to handle the second symbol
C13_Witness ==
    /\ Len(report["sched"]) >= 2
    /\ report["sched"][1].faulted
    /\ report["sched"][1].df # <<>>
    /\ report["sched"][1].ret = 0
    /\ report["sched"][2].symbol = "B"

-----------------------------------------------------------------------------
\* C14: after a call of upsert that no store fault failed, every bar of the
\* batch whose key was absent before the call is stored with createdAt and
\* updatedAt equal to the time of that call and with the provider's tag as
\* source, the batch itself carrying only symbol, dt, open, high, low, close
\* and volume
C14_BookkeepingFields ==
    \A i \in LogIdx :
       LET e == log[i]
       IN (e.df # <<>> /\ ~e.faulted) =>
             \A b \in BarsOf(e.df) :
                /\ DOMAIN b = DfColumns
                /\ Key(b) \notin Keys(e.before) =>
                      /\ Key(b) \in Keys(e.after)
                      /\ LET r == RowOf(e.after, Key(b))
                         IN /\ r.created_at = CallTime(e)
                            /\ r.updated_at = CallTime(e)
                            /\ r.source = "yfinance"
                            /\ Prices(r) = Prices(b)

-----------------------------------------------------------------------------
-----------------------------------------------------------------------------
(* Properties of job_fetch_and_store *)

FetchSteps == {"download", "sleep", "fetch_ret"}
UpsertSteps == {"connect", "to_sql", "merge", "upsert_ret"}

\* C16: a cycle handles its symbols one at a time in the order of the list:
\* the symbols finished so far are the first ones of the list, in order; the
\* fetch under way, its attempts and its backoff delays included, is that of
\* the symbol after them; and the upsert under way stores the bars fetched
\* for that same symbol, so nothing of a later symbol has begun
C16_SequentialOrder ==
    \A p \in Threads :
       job[p] =>
          /\ Len(report[p]) = idx[p] - 1
          /\ \A i \in 1..Len(report[p]) : report[p][i].symbol = symbols[p][i]
          /\ pc[p] \in FetchSteps \cup UpsertSteps \cup {"cycle"}
          /\ pc[p] \in FetchSteps \cup UpsertSteps =>
                /\ idx[p] <= Len(symbols[p])
                /\ symbol[p] = symbols[p][idx[p]]
          /\ pc[p] \in UpsertSteps =>
                /\ df[p] = fetched[p].df
                /\ \A b \in BarsOf(df[p]) : b.symbol = Upper(symbols[p][idx[p]])

\* the fetch of the second symbol is in a backoff delay, after the bars of
\* the first symbol went through upsert
C16_Witness ==
    /\ job["sched"]
    /\ idx["sched"] = 2
    /\ pc["sched"] = "sleep"
    /\ Len(report["sched"]) = 1
    /\ report["sched"][1].msg = "inserted"

-----------------------------------------------------------------------------
\* a bar with every price field and the volume present
Complete(r) == \A f \in PriceFields : r[f] # None

\* C17: on every ingestion path (a scheduled or on-demand cycle, a history
\* request that stores, a latest request that stores) no bar with a missing
\* open, high, low, close or volume reaches the store: every bar handed to
\* upsert, every staged row and every stored bar is complete
C17_NoIncompleteBar ==
    /\ \A r \in ohlcv : Complete(r)
    /\ \A p \in Threads :
          pc[p] \in UpsertSteps => \A b \in BarsOf(df[p]) : Complete(b)
    /\ \A n \in DOMAIN tables : \A b \in BarsOf(tables[n].rows) : Complete(b)
    /\ \A i \in LogIdx : \A r \in log[i].after : Complete(r)

\* the provider answered two rows, one of them without its close, and the
\* one bar left of them has been staged for the store that already holds a bar
C17_Witness ==
    \E p \in Threads :
       /\ pc[p] = "merge"
       /\ Len(raw[p]) = 2
       /\ \E i \in 1..2 : raw[p][i].Close = NaN
       /\ Len(df[p]) = 1
       /\ staged[p]
       /\ ohlcv # {}

-----------------------------------------------------------------------------
\* C18: the staging area belongs to the call: when calls of upsert overlap,
\* also when they begin within one second of the clock, the rows a call is
\* about to merge are exactly the rows of its own batch, and when two
\* overlapping calls that no store fault failed have returned, the bars of
\* both batches are in the store
C18_StagingScoped ==
    /\ \A p \in Threads :
          pc[p] = "merge" =>
             /\ temp_table_name[p] \in DOMAIN tables
             /\ tables[temp_table_name[p]].rows = df[p]
    /\ \A i, j \in LogIdx :
          (/\ log[i].callno \in log[j].peers
           /\ ~log[i].faulted /\ ~log[j].faulted) =>
             \A b \in BarsOf(log[i].df) \cup BarsOf(log[j].df) :
                Key(b) \in Keys(ohlcv)

-----------------------------------------------------------------------------
\* C19: an answer of the provider that holds no rows is not retried: the
\* fetch makes no further attempt and takes no backoff delay after it (its
\* delays are those of the failed attempts before it), and it returns the
\* no-data result without raising
C19_EmptyResponseNotRetried ==
    \A p \in Threads :
       why[p] = "no_rows" =>
          /\ pc[p] \notin {"download", "sleep"}
          /\ raw[p] = <<>>
          /\ fetched[p] = [df |-> <<>>, raised |-> FALSE]
          /\ attempt[p] = tries[p] - 1
          /\ Len(slept[p]) = tries[p] - 1

\* the first attempt of a fetch was answered without rows and the fetch is
\* back after that single attempt, with no delay taken
C19_Witness ==
    /\ pc["req"] = "fetch_ret"
    /\ why["req"] = "no_rows"
    /\ tries["req"] = 1
    /\ slept["req"] = <<>>

-----------------------------------------------------------------------------
\* C20: the scheduler starts idle, and every cycle that starts over its list
\* of symbols returns to idle in the end, whatever the provider and the store
\* answer for each symbol, each attempt and each store call returning or
\* failing
C20_CycleTermination ==
    /\ \A p \in Threads : pc[p] = "idle" /\ ~job[p]
    /\ \A p \in Threads : job[p] ~> (~job[p] /\ pc[p] = "idle")

\* a cycle over three symbols is over: the first symbol had no data after a
\* delay, the store failed the second, the third went through upsert
C20_Witness ==
    /\ CycleOver("sched")
    /\ Len(symbols["sched"]) = 3
    /\ Len(report["sched"]) = 3
    /\ report["sched"][1].msg = "no_data"
    /\ report["sched"][2].msg = "inserted"
    /\ report["sched"][2].faulted
    /\ report["sched"][3].msg = "inserted"
    /\ ~report["sched"][3].faulted

-----------------------------------------------------------------------------
-----------------------------------------------------------------------------
\* C22: history returns what is stored: every bar of an answer of the store
\* is a stored bar of the symbol asked for, returned with the stored open,
\* high, low, close and volume, whatever those values are, 0 included
C22_HistoryReturnsStored ==
    \A p \in Threads :
       qres[p].ok =>
          \A i \in 1..Len(qres[p].data) :
             LET d == qres[p].data[i]
             IN \E r \in ohlcv :
                   /\ r.symbol = d.symbol
                   /\ DtString(r.dt) = d.dt
                   /\ \A f \in PriceFields : d[f] = r[f]

-----------------------------------------------------------------------------
\* C23: a cycle records a symbol as inserted only if the upsert of its bars
\* returned a count other than 0; a symbol whose fetch or normalisation gave
\* no bars, or whose upsert returned 0, is recorded as a failure and never
\* as rows inserted
C23_OutcomeReporting ==
    \A p \in Threads :
       \A i \in 1..Len(report[p]) :
          LET e == report[p][i]
          IN /\ e.msg = "inserted" => (e.df # <<>> /\ e.ret # 0)
             /\ (e.df = <<>> \/ e.ret = 0) => e.msg \in {"no_data", "error"}

====
